---- MODULE Spec2Model ----
(***************************************************************************)
(* Concept relationship graph of the philosophical-universe-explorer:      *)
(* ConceptMapper (src/src/analysis/concept_mapper.py) builds an undirected *)
(* weighted co-occurrence graph from the DataManager's valid episodes      *)
(* (src/src/core/data_manager.py) and answers queries over it.             *)
(***************************************************************************)
EXTENDS Integers, Sequences, FiniteSets, TLC

VARIABLES episodes, concept_graph, mapper, result, todo, cache_dir, now, locals

vars == <<episodes, concept_graph, mapper, result, todo, cache_dir, now, locals>>

\* the state outside the DataManager and the constructed ConceptMapper: the
\* episodes the constructor's loop has still to read (todo), the files of the
\* cache directory and the clock (cache_dir, now), and the local variables of
\* a call of the utilities that is under way (locals)
others == <<todo, cache_dir, now, locals>>

(***************************************************************************)
(* Bounds of the model.                                                    *)
(***************************************************************************)
\* episodes held by the DataManager
MaxEpisodes == 2
\* entries of one concepts_explored list
MaxLen == 3
\* entries of all concepts_explored lists together
MaxEntries == 4
\* the same three bounds for the episode sets with malformed records
MaxEpisodesM == 2
MaxLenM == 2
MaxEntriesM == 2

(***************************************************************************)
(* Values of the 'concept' field of a concepts_explored entry.  A value is *)
(* a concept name (a Python str) or one of the JSON values below.          *)
(***************************************************************************)
Names == {"A", "B", "C"}
\* the key 'concept' is absent from the entry
Missing == "<missing>"
\* "concept": null
Null == "<null>"
\* "concept": ""
Empty == ""
\* "concept": 5         (truthy, hashable, not a str)
NonStr == "<5>"
\* "concept": ["x"]     (truthy, unhashable, not a str)
Unhashable == "<[x]>"

\* bool(c.get('concept'))
Truthy(v) == v \notin {Missing, Null, Empty}
\* the value has a .lower() method
IsStr(v) == v \notin {Missing, Null, NonStr, Unhashable}
\* the value can be a dict key / graph node
Hashable(v) == v # Unhashable

\* str.lower()
Lower(s) ==
  CASE s = "A" -> "a"
    [] s = "B" -> "b"
    [] s = "C" -> "c"
    [] OTHER -> s

\* one entry of concepts_explored: a dict with a 'concept' value, or not a dict
DictEntry(v) == [isdict |-> TRUE, concept |-> v]
NonDictEntry == [isdict |-> FALSE, concept |-> Missing]

\* c.get('concept', ''): the default applies only when the key is absent
GetConceptOrEmpty(c) == IF c.concept = Missing THEN Empty ELSE c.concept

(***************************************************************************)
(* Episode: the fields of the dataclass the graph code reads.              *)
(*   valid    : the value of Episode.is_valid()                            *)
(*   pc       : "dict" when philosophical_content is a mapping, else "none"*)
(*   ce       : philosophical_content['concepts_explored'] is a "list", is *)
(*              "missing", is a "string" (iterated character by character),*)
(*              is "null" or is a "number"                                 *)
(*   concepts : its entries when ce = "list"                               *)
(***************************************************************************)
Episode(id, valid, pc, ce, concepts) ==
  [episode_id |-> id, valid |-> valid, pc |-> pc, ce |-> ce, concepts |-> concepts]

\* get_all_episodes with the valid_only filter lost
get_all_episodes_unfiltered(eps) == eps

\* DataManager.get_all_episodes(valid_only=True): dict order, valid ones only
RECURSIVE get_all_episodes(_)
get_all_episodes(eps) ==
  IF eps = <<>> THEN <<>>
  ELSE (IF Head(eps).valid THEN <<Head(eps)>> ELSE <<>>) \o get_all_episodes(Tail(eps))

\* DataManager.get_episode(episode_id): the episode or None (here <<>>)
get_episode(eps, id) ==
  IF \E i \in 1..Len(eps) : eps[i].episode_id = id
  THEN <<eps[CHOOSE i \in 1..Len(eps) : eps[i].episode_id = id]>>
  ELSE <<>>

(***************************************************************************)
(* The graph (networkx.Graph): nodes in insertion order, node attributes,  *)
(* adjacency lists in insertion order, and one attribute record per        *)
(* unordered pair {u, v} ({u} for a self-loop).                            *)
(***************************************************************************)
EmptyGraph == [order |-> <<>>, data |-> <<>>, adj |-> <<>>, edata |-> <<>>]

NodeSet(g) == {g.order[i] : i \in 1..Len(g.order)}
EdgeSet(g) == DOMAIN g.edata

has_node(g, n) == n \in NodeSet(g)
has_edge(g, u, v) == {u, v} \in EdgeSet(g)
number_of_nodes(g) == Len(g.order)
number_of_edges(g) == Cardinality(EdgeSet(g))

\* Graph.add_node(n, episodes=[], count=0)
add_node(g, n) ==
  [g EXCEPT !.order = Append(@, n),
            !.data = (n :> [episodes |-> <<>>, count |-> 0]) @@ @,
            !.adj = (n :> <<>>) @@ @]

\* Graph.add_edge(u, v, weight=1, episodes=[id]) for a pair with no edge yet
add_edge(g, u, v, id) ==
  [g EXCEPT !.edata = ({u, v} :> [weight |-> 1, episodes |-> <<id>>]) @@ @,
            !.adj = [n \in DOMAIN @ |->
                       IF n = u THEN Append(@[n], v)
                       ELSE IF n = v THEN Append(@[n], u)
                       ELSE @[n]]]

(***************************************************************************)
(* ConceptMapper._build_concept_graph                                      *)
(***************************************************************************)
\* line 30: [c.get('concept', '') for c in concepts
\*           if isinstance(c, dict) and c.get('concept')]
RECURSIVE concept_names(_)
concept_names(cs) ==
  IF cs = <<>> THEN <<>>
  ELSE (IF Head(cs).isdict /\ Truthy(Head(cs).concept)
        THEN <<GetConceptOrEmpty(Head(cs))>> ELSE <<>>) \o concept_names(Tail(cs))

\* AddMention with the count set only when the node is created
AddMention_CountOnCreate(g, concept, id) ==
  IF has_node(g, concept)
  THEN [g EXCEPT !.data[concept].episodes = Append(@, id)]
  ELSE [add_node(g, concept) EXCEPT !.data[concept] = [episodes |-> <<id>>, count |-> 1]]

\* AddMention that counts an episode once, however often it names the concept
AddMention_OncePerEpisode(g, concept, id) ==
  IF has_node(g, concept)
       /\ \E k \in 1..Len(g.data[concept].episodes) : g.data[concept].episodes[k] = id
  THEN g
  ELSE LET g1 == IF has_node(g, concept) THEN g ELSE add_node(g, concept)
       IN [g1 EXCEPT !.data[concept] =
             [episodes |-> Append(@.episodes, id), count |-> @.count + 1]]

\* lines 34-39: one iteration of the node loop
AddMention(g, concept, id) ==
  LET g1 == IF has_node(g, concept) THEN g ELSE add_node(g, concept)
  IN [g1 EXCEPT !.data[concept] =
        [episodes |-> Append(@.episodes, id), count |-> @.count + 1]]

\* lines 33-39: the node loop; add_node raises TypeError on an unhashable name
RECURSIVE AddNodes(_, _, _)
AddNodes(b, names, id) ==
  IF names = <<>> \/ b.raised THEN b
  ELSE IF ~Hashable(Head(names)) THEN [b EXCEPT !.raised = TRUE]
  ELSE AddNodes([b EXCEPT !.g = AddMention(@, Head(names), id)], Tail(names), id)

\* IndexPairs with the inner range starting at i instead of i + 1 after the
\* first row
RECURSIVE IndexPairs_FromSelf(_, _, _)
IndexPairs_FromSelf(i, j, n) ==
  IF i > n THEN <<>>
  ELSE IF j > n THEN IndexPairs_FromSelf(i + 1, i + 1, n)
  ELSE <<(<<i, j>>)>> \o IndexPairs_FromSelf(i, j + 1, n)

\* lines 42-43: the index pairs (i, j), i < j, in loop order, row by row
RECURSIVE IndexPairs(_, _, _)
IndexPairs(i, j, n) ==
  IF i > n THEN <<>>
  ELSE [k \in 1..(n - j + 1) |-> <<i, j + k - 1>>] \o IndexPairs(i + 1, i + 2, n)

\* AddPair that counts an episode once per edge
AddPair_OncePerEpisode(g, concept1, concept2, id) ==
  IF has_edge(g, concept1, concept2)
  THEN IF \E k \in 1..Len(g.edata[{concept1, concept2}].episodes) :
             g.edata[{concept1, concept2}].episodes[k] = id
       THEN g
       ELSE [g EXCEPT !.edata[{concept1, concept2}] =
               [weight |-> @.weight + 1, episodes |-> Append(@.episodes, id)]]
  ELSE add_edge(g, concept1, concept2, id)

\* lines 44-50: one iteration of the edge loop
AddPair(g, concept1, concept2, id) ==
  IF has_edge(g, concept1, concept2)
  THEN [g EXCEPT !.edata[{concept1, concept2}] =
          [weight |-> @.weight + 1, episodes |-> Append(@.episodes, id)]]
  ELSE add_edge(g, concept1, concept2, id)

\* lines 42-50: the edge loop, which runs after the node loop (a graph
\* without nodes has no names to pair)
RECURSIVE AddEdges(_, _, _, _)
AddEdges(g, names, pairs, id) ==
  IF pairs = <<>> \/ number_of_nodes(g) = 0 THEN g
  ELSE AddEdges(AddPair(g, names[Head(pairs)[1]], names[Head(pairs)[2]], id),
                names, Tail(pairs), id)

\* lines 29-50: the body of the episode loop.  b.raised records an exception
\* that left the loop: .get on a philosophical_content that is no mapping
\* (line 29), iteration over a concepts_explored that is None or a number
\* (line 30), an unhashable node (line 35).  The characters of a string are
\* no dicts and give no name.
BuildEpisode(b, ep) ==
  IF b.raised THEN b
  ELSE IF ep.pc # "dict" THEN [b EXCEPT !.raised = TRUE]
  ELSE IF ep.ce \in {"null", "number"} THEN [b EXCEPT !.raised = TRUE]
  ELSE LET names == concept_names(IF ep.ce = "list" THEN ep.concepts ELSE <<>>)
           b1 == AddNodes(b, names, ep.episode_id)
       IN IF b1.raised THEN b1
          ELSE [b1 EXCEPT !.g = AddEdges(@, names, IndexPairs(1, 2, Len(names)),
                                         ep.episode_id)]

RECURSIVE BuildLoop(_, _)
BuildLoop(b, eps) ==
  IF eps = <<>> THEN b ELSE BuildLoop(BuildEpisode(b, Head(eps)), Tail(eps))

\* lines 20-53: the build over the valid episodes, on top of the graph g
_build_concept_graph(g, eps) ==
  BuildLoop([g |-> g, raised |-> FALSE], get_all_episodes(eps))

(***************************************************************************)
(* The episode sets the DataManager can hold.                              *)
(***************************************************************************)
Min(a, b) == IF a < b THEN a ELSE b

\* entries of well-formed records: named concepts
Entries == {DictEntry(v) : v \in Names}

\* entries of any shape, over two names: a name that is missing, null, empty,
\* a number or a list, and an entry that is no dict
EntriesM ==
  {DictEntry(v) : v \in {"A", "B", Missing, Null, Empty, NonStr, Unhashable}}
    \cup {NonDictEntry}

\* the episodes with the given id and a concepts_explored list of length len
EpisodesOfLen(id, alphabet, len) ==
  {Episode(id, v, "dict", "list", cs) : v \in BOOLEAN, cs \in [1..len -> alphabet]}

\* the episodes whose philosophical_content or concepts_explored has no list,
\* as far as DataManager._create_indexes (lines 127-129) lets them through:
\* a philosophical_content that is null, or a concepts_explored that is
\* missing or a string (null or a number raises there, and no DataManager
\* comes to exist)
ShapelessEpisodes(id) ==
  {Episode(id, v, "none", "missing", <<>>) : v \in BOOLEAN}
    \cup {Episode(id, v, "dict", ce, <<>>) : v \in BOOLEAN, ce \in {"missing", "string"}}

NoResult == [op |-> "none", kind |-> "none"]

\* no call of the utilities is under way
NoCall == [op |-> "none"]

\* DataManager.__init__ line 83: no episode loaded, no ConceptMapper yet; the
\* cache directory is empty
Init ==
  /\ episodes = <<>>
  /\ concept_graph = EmptyGraph
  /\ mapper = "none"
  /\ result = NoResult
  /\ todo = <<>>
  /\ cache_dir = <<>>
  /\ now = 0
  /\ locals = NoCall

\* the number of concepts_explored entries of all episodes
RECURSIVE TotalEntries(_)
TotalEntries(eps) ==
  IF eps = <<>> THEN 0 ELSE Len(Head(eps).concepts) + TotalEntries(Tail(eps))

\* DataManager._load_analyzed_episodes, lines 105-110: one more file is read
\* and its episode stored under a new id; all files are read before the
\* engine constructs the ConceptMapper
Load(alphabet, maxEpisodes, maxLen, maxEntries, shapeless) ==
  /\ mapper = "none"
  /\ Len(episodes) < maxEpisodes
  /\ \E len \in 0..Min(maxLen, maxEntries - TotalEntries(episodes)) :
       \E e \in EpisodesOfLen(Len(episodes) + 1, alphabet, len)
                  \cup (IF shapeless /\ len = 0
                        THEN ShapelessEpisodes(Len(episodes) + 1) ELSE {}) :
          episodes' = Append(episodes, e)
  /\ UNCHANGED <<concept_graph, mapper, result>>
  /\ UNCHANGED others

\* a file with well-formed records
LoadEpisode == Load(Entries, MaxEpisodes, MaxLen, MaxEntries, FALSE)

\* a file with records of any shape
LoadEpisodeM == Load(EntriesM, MaxEpisodesM, MaxLenM, MaxEntriesM, TRUE)

\* ConceptMapper.__init__ (lines 14-18): an exception of the build leaves the
\* constructor, and no ConceptMapper object comes to exist
Build ==
  /\ mapper = "none"
  /\ LET b == _build_concept_graph(EmptyGraph, episodes)
     IN /\ concept_graph' = b.g
        /\ mapper' = IF b.raised THEN "failed" ELSE "built"
  /\ UNCHANGED <<episodes, result>>
  /\ UNCHANGED others

(***************************************************************************)
(* Graph library routines the queries call (networkx).                     *)
(***************************************************************************)
Range(seq) == {seq[i] : i \in 1..Len(seq)}

\* the whole list, whatever n is
Take_All(seq, n) == seq

\* list[:n]
Take(seq, n) == SubSeq(seq, 1, Min(n, Len(seq)))

\* a fraction num/den, den > 0 (a Python float in the source)
Rat(num, den) == [num |-> num, den |-> den]

\* sorted(..., reverse=True) / list.sort(reverse=True) on <<key, item>> pairs:
\* descending by key, stable
\* an insertion that puts x before the items of the same key
RECURSIVE InsertDesc_BeforeEqual(_, _)
InsertDesc_BeforeEqual(sorted, x) ==
  IF sorted = <<>> THEN <<x>>
  ELSE IF Head(sorted)[1] <= x[1] THEN <<x>> \o sorted
  ELSE <<Head(sorted)>> \o InsertDesc_BeforeEqual(Tail(sorted), x)

RECURSIVE InsertDesc(_, _)
InsertDesc(sorted, x) ==
  IF sorted = <<>> THEN <<x>>
  ELSE IF Head(sorted)[1] < x[1] THEN <<x>> \o sorted
  ELSE <<Head(sorted)>> \o InsertDesc(Tail(sorted), x)

RECURSIVE SortDesc(_)
SortDesc(pairs) ==
  IF pairs = <<>> THEN <<>>
  ELSE InsertDesc(SortDesc(SubSeq(pairs, 1, Len(pairs) - 1)), pairs[Len(pairs)])

\* the second components of a sequence of pairs
Items(pairs) == [i \in 1..Len(pairs) |-> pairs[i][2]]

\* G.neighbors(n): adjacency in insertion order (n itself when it has a self-loop)
neighbors(g, n) == g.adj[n]

\* G.degree(n): a self-loop counts twice
degree(g, n) ==
  Len(g.adj[n]) + (IF n \in Range(g.adj[n]) THEN 1 ELSE 0)

\* G.edges(data=True): every edge once, by first endpoint in node order
RECURSIVE EdgesFrom(_, _, _)
EdgesFrom(g, n, nbrs) ==
  IF nbrs = <<>> THEN <<>>
  ELSE (IF \E i, j \in 1..Len(g.order) :
              i < j /\ g.order[i] = Head(nbrs) /\ g.order[j] = n
        THEN <<>> ELSE <<(<<n, Head(nbrs)>>)>>) \o EdgesFrom(g, n, Tail(nbrs))

RECURSIVE EdgeListFrom(_, _)
EdgeListFrom(g, nodes) ==
  IF nodes = <<>> THEN <<>>
  ELSE EdgesFrom(g, Head(nodes), g.adj[Head(nodes)]) \o EdgeListFrom(g, Tail(nodes))

edges(g) == EdgeListFrom(g, g.order)

\* nx.degree_centrality(G)[n]: 1 for every node of a graph of at most one node
degree_centrality(g, n) ==
  IF number_of_nodes(g) <= 1 THEN Rat(1, 1)
  ELSE Rat(degree(g, n), number_of_nodes(g) - 1)

\* nx.clustering(G)[n]: triangles through n over pairs of neighbours,
\* self-loops left out
ProperNbrs(g, n) == Range(g.adj[n]) \ {n}

RECURSIVE SumOver(_, _)
SumOver(f, S) ==
  IF S = {} THEN 0
  ELSE LET x == CHOOSE y \in S : TRUE IN f[x] + SumOver(f, S \ {x})

clustering(g, n) ==
  LET vs == ProperNbrs(g, n)
      d == Cardinality(vs)
      t == SumOver([w \in vs |-> Cardinality(vs \cap ProperNbrs(g, w))], vs)
  IN IF t = 0 THEN Rat(0, 1) ELSE Rat(t, d * (d - 1))

\* nx.density(G): 0 when there is no edge or at most one node
density(g) ==
  LET n == number_of_nodes(g)
      m == number_of_edges(g)
  IN IF m = 0 \/ n <= 1 THEN Rat(0, 1) ELSE Rat(2 * m, n * (n - 1))

\* sum of the fractions of a sequence
RECURSIVE RatSum(_)
RatSum(rs) ==
  IF rs = <<>> THEN Rat(0, 1)
  ELSE LET r == RatSum(Tail(rs))
       IN Rat(Head(rs).num * r.den + r.num * Head(rs).den, Head(rs).den * r.den)

\* nx.average_clustering(G) = sum(c) / len(c): ZeroDivisionError when G has
\* no node
average_clustering(g) ==
  IF number_of_nodes(g) = 0 THEN [raised |-> TRUE, value |-> Rat(0, 1)]
  ELSE LET total == RatSum([i \in 1..Len(g.order) |-> clustering(g, g.order[i])])
       IN [raised |-> FALSE, value |-> Rat(total.num, total.den * number_of_nodes(g))]

\* the nodes reachable from the set S
RECURSIVE Reach(_, _)
Reach(g, S) ==
  LET T == S \cup UNION {Range(g.adj[n]) : n \in S}
  IN IF T = S THEN S ELSE Reach(g, T)

\* nx.connected_components(G): by first member in node order
RECURSIVE ComponentsFrom(_, _, _)
ComponentsFrom(g, nodes, seen) ==
  IF nodes = <<>> THEN <<>>
  ELSE IF Head(nodes) \in seen THEN ComponentsFrom(g, Tail(nodes), seen)
  ELSE LET c == Reach(g, {Head(nodes)})
       IN <<c>> \o ComponentsFrom(g, Tail(nodes), seen \cup c)

connected_components(g) == ComponentsFrom(g, g.order, {})

\* the node sequences from s to t along edges, without repeated node
SimplePaths(g, s, t) ==
  {p \in UNION {[1..k -> NodeSet(g)] : k \in 1..number_of_nodes(g)} :
     /\ p[1] = s
     /\ p[Len(p)] = t
     /\ \A i, j \in 1..Len(p) : i # j => p[i] # p[j]
     /\ \A i \in 1..(Len(p) - 1) : has_edge(g, p[i], p[i + 1])}

\* some path from s to t, of any length
shortest_paths_any(g, s, t) == SimplePaths(g, s, t)

\* nx.shortest_path(G, s, t): a path with the fewest edges; which one of
\* several the search returns is left open.  Empty set: NetworkXNoPath
shortest_paths(g, s, t) ==
  {p \in SimplePaths(g, s, t) : \A q \in SimplePaths(g, s, t) : Len(p) <= Len(q)}

(***************************************************************************)
(* The queries of ConceptMapper.  A query returns a record: kind is "ok",  *)
(* "error" (not found), "nopath", or "raised" when an exception leaves the *)
(* call.                                                                   *)
(***************************************************************************)
\* the names a query can be called with; "a" differs from node "A" by case,
\* "C" is the name of a node or of none
QueryNames == {"a", "C"}

Raised(op, args) == [op |-> op, args |-> args, kind |-> "raised"]

\* lines 59-62: the first node equal to the name without regard to case;
\* node.lower() raises AttributeError on a node that is not a str
RECURSIVE FirstLowerMatch(_, _)
FirstLowerMatch(nodes, concept) ==
  IF nodes = <<>> THEN [kind |-> "none", node |-> concept]
  ELSE IF ~IsStr(Head(nodes)) THEN [kind |-> "raised", node |-> concept]
  ELSE IF Lower(Head(nodes)) = Lower(concept) THEN [kind |-> "found", node |-> Head(nodes)]
  ELSE FirstLowerMatch(Tail(nodes), concept)

\* case-insensitive match only
ResolveSingle_LowerOnly(g, concept) == FirstLowerMatch(g.order, concept)

\* lines 57-64: exact match, else first case-insensitive match
ResolveSingle(g, concept) ==
  IF has_node(g, concept) THEN [kind |-> "found", node |-> concept]
  ELSE FirstLowerMatch(g.order, concept)

\* lines 73-82: one entry per neighbour, sorted by strength, descending
related_concepts(g, concept) ==
  LET nbrs == neighbors(g, concept)
  IN Items(SortDesc([i \in 1..Len(nbrs) |->
       <<g.edata[{concept, nbrs[i]}].weight,
         [concept |-> nbrs[i],
          strength |-> g.edata[{concept, nbrs[i]}].weight,
          shared_episodes |-> g.edata[{concept, nbrs[i]}].episodes]>>]))

\* lines 91-94: index of the first dict entry whose 'concept' equals the name
\* without regard to case (0: none; -1: .lower() raised AttributeError on a
\* 'concept' that is null or not a str)
RECURSIVE ScanDetails(_, _, _)
ScanDetails(cs, i, concept) ==
  IF i > Len(cs) THEN 0
  ELSE IF ~cs[i].isdict THEN ScanDetails(cs, i + 1, concept)
  ELSE IF ~IsStr(GetConceptOrEmpty(cs[i])) THEN -1
  ELSE IF Lower(GetConceptOrEmpty(cs[i])) = Lower(concept) THEN i
  ELSE ScanDetails(cs, i + 1, concept)

\* lines 87-101 for one episode id: <<>> when get_episode finds nothing, else
\* one entry; details is the index of the entry the definition and the
\* application are read from (0: both are '')
EpisodeInfo(eps, ep_id, concept) ==
  LET found == get_episode(eps, ep_id)
  IN IF found = <<>> THEN [raised |-> FALSE, entries |-> <<>>]
     ELSE LET ep == found[1]
          IN IF ep.pc # "dict" \/ ep.ce \in {"null", "number"}
             THEN [raised |-> TRUE, entries |-> <<>>]
             ELSE LET d == ScanDetails(IF ep.ce = "list" THEN ep.concepts ELSE <<>>,
                                       1, concept)
                  IN IF d = -1 THEN [raised |-> TRUE, entries |-> <<>>]
                     ELSE [raised |-> FALSE,
                           entries |-> <<[episode_id |-> ep_id, details |-> d]>>]

\* lines 85-101: the loop over the node's episode ids
RECURSIVE EpisodeInfos(_, _, _)
EpisodeInfos(eps, ids, concept) ==
  IF ids = <<>> THEN [raised |-> FALSE, entries |-> <<>>]
  ELSE LET first == EpisodeInfo(eps, Head(ids), concept)
       IN IF first.raised THEN first
          ELSE LET rest == EpisodeInfos(eps, Tail(ids), concept)
               IN [raised |-> rest.raised, entries |-> first.entries \o rest.entries]

\* the error value of line 64: f'Concept "{concept}" not found'
NotFoundSingle(concept) == <<"Concept \"", concept, "\" not found">>

\* lines 55-110
map_single_concept(g, eps, requested) ==
  LET r == ResolveSingle(g, requested)
      concept == r.node
      infos == EpisodeInfos(eps, g.data[concept].episodes, concept)
  IN IF r.kind = "raised" THEN Raised("map_single_concept", <<requested>>)
     ELSE IF r.kind = "none"
     THEN [op |-> "map_single_concept", args |-> <<requested>>, kind |-> "error",
           error |-> NotFoundSingle(concept)]
     ELSE IF infos.raised THEN Raised("map_single_concept", <<requested>>)
     ELSE [op |-> "map_single_concept", args |-> <<requested>>, kind |-> "ok",
           concept |-> concept,
           occurrences |-> g.data[concept].count,
           episodes |-> infos.entries,
           related_concepts |-> Take(related_concepts(g, concept), 10),
           centrality_score |-> degree_centrality(g, concept),
           clustering_coefficient |-> clustering(g, concept)]

\* lines 200-204: the last node equal to the name without regard to case
\* (<<>>: None); raises on a node that is not a str
RECURSIVE LastLowerMatch(_, _, _)
LastLowerMatch(nodes, concept, norm) ==
  IF nodes = <<>> THEN [raised |-> FALSE, norm |-> norm]
  ELSE IF ~IsStr(Head(nodes)) THEN [raised |-> TRUE, norm |-> norm]
  ELSE LastLowerMatch(Tail(nodes), concept,
                      IF Lower(Head(nodes)) = Lower(concept) THEN <<Head(nodes)>> ELSE norm)

\* every entry carries the data of the first edge of the path
path_details_first(g, path) ==
  [i \in 1..(Len(path) - 1) |->
     [from |-> path[i], to |-> path[i + 1],
      shared_episodes |-> g.edata[{path[1], path[2]}].episodes,
      strength |-> g.edata[{path[1], path[2]}].weight]]

\* lines 215-222
path_details(g, path) ==
  [i \in 1..(Len(path) - 1) |->
     [from |-> path[i], to |-> path[i + 1],
      shared_episodes |-> g.edata[{path[i], path[i + 1]}].episodes,
      strength |-> g.edata[{path[i], path[i + 1]}].weight]]

\* the error value of line 207
NotFoundPath == <<"One or both concepts not found">>
\* the error value of line 236
NoPathFound == <<"No path found between concepts">>

\* lines 194-237: the possible results
find_concept_path(g, concept1, concept2) ==
  LET n1 == LastLowerMatch(g.order, concept1, <<>>)
      n2 == LastLowerMatch(g.order, concept2, <<>>)
      args == <<concept1, concept2>>
  IN IF n1.raised \/ n2.raised THEN {Raised("find_concept_path", args)}
     ELSE IF n1.norm = <<>> \/ n2.norm = <<>>
     THEN {[op |-> "find_concept_path", args |-> args, kind |-> "error",
            error |-> NotFoundPath]}
     ELSE IF shortest_paths(g, n1.norm[1], n2.norm[1]) = {}
     THEN {[op |-> "find_concept_path", args |-> args, kind |-> "nopath",
            concept1 |-> n1.norm[1], concept2 |-> n2.norm[1], error |-> NoPathFound]}
     ELSE {[op |-> "find_concept_path", args |-> args, kind |-> "ok",
            concept1 |-> n1.norm[1], concept2 |-> n2.norm[1],
            path |-> path, path_length |-> Len(path) - 1,
            path_details |-> path_details(g, path)]
           : path \in shortest_paths(g, n1.norm[1], n2.norm[1])}

\* an export that leaves out the edges of weight 1
export_for_visualization_heavy(g) ==
  LET heavy == SelectSeq(edges(g), LAMBDA e : g.edata[{e[1], e[2]}].weight >= 2)
  IN [op |-> "export_for_visualization", args |-> <<>>, kind |-> "ok",
      nodes |-> [i \in 1..Len(g.order) |->
                   [id |-> g.order[i], label |-> g.order[i],
                    size |-> g.data[g.order[i]].count,
                    episodes |-> Len(g.data[g.order[i]].episodes)]],
      edges |-> [i \in 1..Len(heavy) |->
                   [source |-> heavy[i][1], target |-> heavy[i][2],
                    weight |-> g.edata[{heavy[i][1], heavy[i][2]}].weight]]]

\* lines 239-264
export_for_visualization(g) ==
  [op |-> "export_for_visualization", args |-> <<>>, kind |-> "ok",
   nodes |-> [i \in 1..Len(g.order) |->
                [id |-> g.order[i], label |-> g.order[i],
                 size |-> g.data[g.order[i]].count,
                 episodes |-> Len(g.data[g.order[i]].episodes)]],
   edges |-> [i \in 1..Len(edges(g)) |->
                [source |-> edges(g)[i][1], target |-> edges(g)[i][2],
                 weight |-> g.edata[{edges(g)[i][1], edges(g)[i][2]}].weight]]]

\* lines 175-177: the members a cluster can report as central: the first of
\* maximal degree in the iteration order of the subgraph view, which is the
\* graph's node order unless the component is less than half of the graph,
\* when it is the order of a set of str
CentralConcepts(g, component) ==
  LET best == {n \in component : \A m \in component : degree(g, m) <= degree(g, n)}
  IN IF 2 * Cardinality(component) < number_of_nodes(g) THEN best
     ELSE {g.order[CHOOSE i \in 1..Len(g.order) :
                     /\ g.order[i] \in best
                     /\ \A j \in 1..(i - 1) : g.order[j] \notin best]}

\* line 183: nx.density of the component's subgraph
ComponentDensity(g, component) ==
  LET n == Cardinality(component)
      m == Cardinality({e \in EdgeSet(g) : e \subseteq component})
  IN IF m = 0 \/ n <= 1 THEN Rat(0, 1) ELSE Rat(2 * m, n * (n - 1))

\* lines 162-192: the possible results
_find_concept_clusters(g) ==
  IF number_of_nodes(g) < 5 THEN {<<>>}
  ELSE LET comps == SelectSeq(connected_components(g), LAMBDA c : Cardinality(c) >= 3)
       IN {Take(Items(SortDesc([i \in 1..Len(comps) |->
                  <<Cardinality(comps[i]),
                    [size |-> Cardinality(comps[i]),
                     concepts |-> comps[i],
                     central_concept |-> central[i],
                     density |-> ComponentDensity(g, comps[i])]>>])), 10)
           : central \in {f \in [1..Len(comps) -> NodeSet(g)] :
                            \A i \in 1..Len(comps) : f[i] \in CentralConcepts(g, comps[i])}}

\* lines 120-123
top_by_frequency(g) ==
  Take(Items(SortDesc([i \in 1..Len(g.order) |->
         <<g.data[g.order[i]].count,
           [concept |-> g.order[i], count |-> g.data[g.order[i]].count]>>])), 20)

\* lines 125-128: all scores have the same denominator
top_by_centrality(g) ==
  Take(Items(SortDesc([i \in 1..Len(g.order) |->
         <<degree_centrality(g, g.order[i]).num,
           [concept |-> g.order[i], score |-> degree_centrality(g, g.order[i])]>>])), 20)

\* lines 139-148
strong_connections(g) ==
  LET strong == SelectSeq(edges(g), LAMBDA e : g.edata[{e[1], e[2]}].weight >= 3)
  IN Items(SortDesc([i \in 1..Len(strong) |->
       <<g.edata[{strong[i][1], strong[i][2]}].weight,
         [concepts |-> strong[i],
          strength |-> g.edata[{strong[i][1], strong[i][2]}].weight,
          episodes |-> g.edata[{strong[i][1], strong[i][2]}].episodes]>>]))

\* lines 112-160: the possible results (top_concepts_by_betweenness left out);
\* the exception of nx.average_clustering leaves the call
map_all_concepts(g) ==
  IF average_clustering(g).raised THEN {Raised("map_all_concepts", <<>>)}
  ELSE {[op |-> "map_all_concepts", args |-> <<>>, kind |-> "ok",
         total_concepts |-> number_of_nodes(g),
         total_relationships |-> number_of_edges(g),
         top_concepts_by_frequency |-> top_by_frequency(g),
         top_concepts_by_centrality |-> top_by_centrality(g),
         concept_clusters |-> clusters,
         strong_connections |-> Take(strong_connections(g), 20),
         graph_density |-> density(g),
         average_clustering |-> average_clustering(g).value]
        : clusters \in _find_concept_clusters(g)}

(***************************************************************************)
(* Calls on the constructed ConceptMapper.  The program is single-threaded:*)
(* a call starts when no other is under way, result holds what the call    *)
(* returned (or that it raised) until the caller has taken it.             *)
(***************************************************************************)
\* a lookup that creates the node it does not find
MapSingle_Creating(names) ==
  /\ mapper = "built"
  /\ result = NoResult
  /\ \E concept \in names :
       /\ result' = map_single_concept(concept_graph, episodes, concept)
       /\ concept_graph' = IF has_node(concept_graph, concept) THEN concept_graph
                           ELSE add_node(concept_graph, concept)
  /\ UNCHANGED <<episodes, mapper>>
  /\ UNCHANGED others

\* map_single_concept called with one of the names
MapSingle(names) ==
  /\ mapper = "built"
  /\ result = NoResult
  /\ \E concept \in names :
       result' = map_single_concept(concept_graph, episodes, concept)
  /\ UNCHANGED <<episodes, concept_graph, mapper>>
  /\ UNCHANGED others

MapSingleConcept == MapSingle(QueryNames)

MapAllConcepts ==
  /\ mapper = "built"
  /\ result = NoResult
  /\ result' \in map_all_concepts(concept_graph)
  /\ UNCHANGED <<episodes, concept_graph, mapper>>
  /\ UNCHANGED others

\* find_concept_path called with two of the names
FindPath(names) ==
  /\ mapper = "built"
  /\ result = NoResult
  /\ \E concept1, concept2 \in names :
       result' \in find_concept_path(concept_graph, concept1, concept2)
  /\ UNCHANGED <<episodes, concept_graph, mapper>>
  /\ UNCHANGED others

FindConceptPath == FindPath(QueryNames)

ExportForVisualization ==
  /\ mapper = "built"
  /\ result = NoResult
  /\ result' = export_for_visualization(concept_graph)
  /\ UNCHANGED <<episodes, concept_graph, mapper>>
  /\ UNCHANGED others

\* the caller takes the value of the call (engine.py lines 118-121)
Return ==
  /\ result # NoResult
  /\ result' = NoResult
  /\ UNCHANGED <<episodes, concept_graph, mapper>>
  /\ UNCHANGED others

Next ==
  \/ LoadEpisode
  \/ Build
  \/ MapSingleConcept
  \/ MapAllConcepts
  \/ FindConceptPath
  \/ ExportForVisualization
  \/ Return

NextM ==
  \/ LoadEpisodeM
  \/ Build
  \/ MapSingleConcept
  \/ MapAllConcepts
  \/ FindConceptPath
  \/ ExportForVisualization
  \/ Return

Spec == Init /\ [][Next]_vars
SpecM == Init /\ [][NextM]_vars

(***************************************************************************)
(* What the episode records say, read off the records themselves.          *)
(***************************************************************************)
\* the positions of the valid episodes in the DataManager
ValidEpisodes == {i \in 1..Len(episodes) : episodes[i].valid}

\* the positions in episode i's list of the dict entries named n
Named(i, k, n) ==
  episodes[i].concepts[k].isdict /\ episodes[i].concepts[k].concept = n
Mentions(i, n) == {k \in 1..Len(episodes[i].concepts) : Named(i, k, n)}

\* the index pairs k < l of episode i's list named a and b, in either order
PairPositions(i, a, b) ==
  {kl \in (1..Len(episodes[i].concepts)) \X (1..Len(episodes[i].concepts)) :
     /\ kl[1] < kl[2]
     /\ \/ Named(i, kl[1], a) /\ Named(i, kl[2], b)
        \/ Named(i, kl[1], b) /\ Named(i, kl[2], a)}

HasMention(i, n) == \E k \in 1..Len(episodes[i].concepts) : Named(i, k, n)
HasPair(i, a, b) ==
  \E k, l \in 1..Len(episodes[i].concepts) :
     k < l /\ ((Named(i, k, a) /\ Named(i, l, b)) \/ (Named(i, k, b) /\ Named(i, l, a)))

EpisodesWith(n) == {i \in ValidEpisodes : HasMention(i, n)}
EpisodesWithPair(a, b) == {i \in ValidEpisodes : HasPair(i, a, b)}
EpisodesWithBoth(a, b) ==
  {i \in ValidEpisodes : HasMention(i, a) /\ HasMention(i, b)}

TotalMentions(n) ==
  SumOver([i \in ValidEpisodes |-> Cardinality(Mentions(i, n))], ValidEpisodes)
TotalPairs(a, b) ==
  SumOver([i \in ValidEpisodes |-> Cardinality(PairPositions(i, a, b))], ValidEpisodes)

\* the names mentioned in valid episodes, and the pairs listed together there
MentionedNames == {n \in Names : \E i \in ValidEpisodes : HasMention(i, n)}
ListedPairs == {e \in {{a, b} : a, b \in Names} :
                  \E a, b \in e : e = {a, b} /\ \E i \in ValidEpisodes : HasPair(i, a, b)}

\* the number of entries of G.edges() that join a and b
EdgeEntries(es, a, b) ==
  Cardinality({k \in 1..Len(es) : {es[k][1], es[k][2]} = {a, b}})

\* the concept names of episode i, in list order
NamesOf(i) == concept_names(episodes[i].concepts)

Count(n) == IF has_node(concept_graph, n) THEN concept_graph.data[n].count ELSE 0
Weight(a, b) ==
  IF has_edge(concept_graph, a, b) THEN concept_graph.edata[{a, b}].weight ELSE 0

\* the name has an exact or a case-insensitive match among the nodes
Resolvable(g, name) ==
  \E n \in NodeSet(g) : n = name \/ (IsStr(n) /\ Lower(n) = Lower(name))

(***************************************************************************)
(* C1.  After the build the concept graph has no self-loop: no edge joins  *)
(* a concept name to itself, also when an episode lists a name twice.      *)
(* The build adds the edge (A, A) for the index pair of two mentions of A. *)
(***************************************************************************)
C1_NoSelfLoop ==
  mapper = "built" => \A e \in EdgeSet(concept_graph) : Cardinality(e) = 2

(***************************************************************************)
(* C2.  For every node of the graph, the stored occurrence count equals    *)
(* the length of the node's episode-id list.                               *)
(***************************************************************************)
C2_OccurrenceConsistency ==
  \A n \in NodeSet(concept_graph) :
     concept_graph.data[n].count = Len(concept_graph.data[n].episodes)

\* a built graph with a node mentioned twice by one episode
C2_Witness ==
  /\ mapper = "built"
  /\ \E n \in NodeSet(concept_graph) :
       /\ concept_graph.data[n].count >= 2
       /\ \E i \in ValidEpisodes : Cardinality(Mentions(i, n)) >= 2

(***************************************************************************)
(* C3.  Duplicate names inside one episode are counted per mention: the    *)
(* occurrence count of a concept is the number of its mentions in the      *)
(* lists of the valid episodes, and the weight of edge {A,B}, A # B, is    *)
(* the number of index pairs i < j named A and B in either order; no edge  *)
(* where there is no such pair.                                            *)
(***************************************************************************)
C3_PerMention ==
  mapper = "built" =>
    /\ \A n \in Names : Count(n) = TotalMentions(n)
    /\ \A a, b \in Names : a # b => Weight(a, b) = TotalPairs(a, b)

\* the single episode [A, B, A] gave A the count 2 and edge (A,B) the weight 2
C3_Witness ==
  /\ mapper = "built"
  /\ Len(episodes) = 1
  /\ episodes[1].valid
  /\ NamesOf(1) = <<"A", "B", "A">>
  /\ Count("A") = 2
  /\ Weight("A", "B") = 2

(***************************************************************************)
(* C4, as claimed.  For every node, the occurrence count equals the number *)
(* of valid episodes in which the concept appears (once per episode, not   *)
(* once per mention).                                                      *)
(***************************************************************************)
C4_OncePerEpisode ==
  mapper = "built" =>
    \A n \in NodeSet(concept_graph) : Count(n) = Cardinality(EpisodesWith(n))

(***************************************************************************)
(* C4, amended.  For every node, the occurrence count is the number of     *)
(* valid episodes in which the concept appears plus the number of repeated *)
(* mentions inside those episodes; it equals the number of episodes        *)
(* exactly when no valid episode lists the name twice.                     *)
(***************************************************************************)
C4_CountWithRepeats ==
  mapper = "built" =>
    \A n \in NodeSet(concept_graph) :
       /\ Count(n) = Cardinality(EpisodesWith(n))
                       + SumOver([i \in EpisodesWith(n) |-> Cardinality(Mentions(i, n)) - 1],
                                 EpisodesWith(n))
       /\ (Count(n) = Cardinality(EpisodesWith(n)))
            <=> (\A i \in ValidEpisodes : Cardinality(Mentions(i, n)) <= 1)

\* a node whose count exceeds the number of episodes that mention it
C4_Witness ==
  /\ mapper = "built"
  /\ \E n \in NodeSet(concept_graph) : Count(n) > Cardinality(EpisodesWith(n))

(***************************************************************************)
(* C5, as claimed.  For every edge {A,B}, the weight equals the number of  *)
(* valid episodes whose concept list contains both A and B.                *)
(***************************************************************************)
C5_OncePerCoEpisode ==
  mapper = "built" =>
    \A a, b \in NodeSet(concept_graph) :
       has_edge(concept_graph, a, b) =>
         Weight(a, b) = Cardinality(EpisodesWithBoth(a, b))

(***************************************************************************)
(* C5, amended.  For every edge {A,B}, the weight is the number of index   *)
(* pairs i < j, over the lists of the valid episodes, named A and B in     *)
(* either order: the number of episodes with such a pair plus the number   *)
(* of further pairs inside those episodes.                                 *)
(***************************************************************************)
C5_WeightWithRepeats ==
  mapper = "built" =>
    \A a, b \in NodeSet(concept_graph) :
       has_edge(concept_graph, a, b) =>
         /\ Weight(a, b) = Cardinality(EpisodesWithPair(a, b))
              + SumOver([i \in EpisodesWithPair(a, b) |->
                           Cardinality(PairPositions(i, a, b)) - 1],
                        EpisodesWithPair(a, b))
         /\ EpisodesWithPair(a, b) # {}

\* an edge between distinct names that is heavier than its episodes are many
C5_Witness ==
  /\ mapper = "built"
  /\ \E a, b \in NodeSet(concept_graph) :
       /\ a # b
       /\ has_edge(concept_graph, a, b)
       /\ Weight(a, b) > Cardinality(EpisodesWithBoth(a, b))

C7_BuildNeverAborts ==
  mapper # "none" =>
    /\ mapper = "built"
    /\ \A n \in NodeSet(concept_graph) : IsStr(n)

(***************************************************************************)
(* C8.  Every query that fails name resolution (map_single_concept,        *)
(* find_concept_path for either argument) returns an error value that      *)
(* carries the requested name, raises nothing and leaves the graph as      *)
(* built.                                                                  *)
(***************************************************************************)
C8_NotFoundCarriesName ==
  (/\ mapper = "built"
   /\ result.op \in {"map_single_concept", "find_concept_path"}
   /\ \E k \in 1..Len(result.args) : ~Resolvable(concept_graph, result.args[k]))
  => /\ result.kind = "error"
     /\ \A k \in 1..Len(result.args) :
          ~Resolvable(concept_graph, result.args[k]) => result.args[k] \in Range(result.error)
     /\ concept_graph = _build_concept_graph(EmptyGraph, episodes).g

(***************************************************************************)
(* C9.  The entries the build ignores are ignored by the queries too: for  *)
(* every episode set the build accepted and every name that resolves to a  *)
(* node, map_single_concept returns a concept detail and does not raise    *)
(* while it scans the concepts_explored lists.                             *)
(***************************************************************************)
C9_ScanIgnoresBadEntries ==
  (/\ mapper = "built"
   /\ \A n \in NodeSet(concept_graph) : IsStr(n)
   /\ result.op = "map_single_concept"
   /\ Resolvable(concept_graph, result.args[1]))
  => result.kind = "ok"

(***************************************************************************)
(* C10.  On a graph with zero nodes map_all_concepts and                   *)
(* export_for_visualization return empty or zero-valued results without    *)
(* failing, and map_single_concept and find_concept_path return their      *)
(* not-found error value.                                                  *)
(***************************************************************************)
C10_EmptyGraphQueries ==
  (mapper = "built" /\ NodeSet(concept_graph) = {} /\ result.op # "none") =>
    CASE result.op = "map_all_concepts" ->
           /\ result.kind = "ok"
           /\ result.total_concepts = 0
           /\ result.total_relationships = 0
           /\ result.top_concepts_by_frequency = <<>>
           /\ result.concept_clusters = <<>>
           /\ result.strong_connections = <<>>
           /\ result.graph_density.num = 0
           /\ result.average_clustering.num = 0
      [] result.op = "export_for_visualization" ->
           result.kind = "ok" /\ result.nodes = <<>> /\ result.edges = <<>>
      [] result.op = "map_single_concept" ->
           result.kind = "error" /\ result.error = NotFoundSingle(result.args[1])
      [] OTHER ->
           result.kind = "error" /\ result.error = NotFoundPath

(***************************************************************************)
(* C12.  The graph_density that map_all_concepts reports lies between 0    *)
(* and 1: it is 0 on a graph of at most one node, and otherwise            *)
(* 2*|E| <= |V|*(|V|-1).  The self-loop of a repeated name (C1) is an edge *)
(* that nx.density counts: [A, A, B] gives 2 edges on 2 nodes, density 2.  *)
(***************************************************************************)
C12_DensityBounds ==
  (mapper = "built" /\ result.op = "map_all_concepts" /\ result.kind = "ok") =>
    /\ 0 <= result.graph_density.num
    /\ result.graph_density.num <= result.graph_density.den
    /\ number_of_nodes(concept_graph) <= 1 => result.graph_density.num = 0
    /\ number_of_nodes(concept_graph) >= 2 =>
         2 * number_of_edges(concept_graph)
           <= number_of_nodes(concept_graph) * (number_of_nodes(concept_graph) - 1)

\* the number of edges of a fewest-edges walk from the nodes of frontier to
\* t, found by breadth-first layers (seen: the nodes of the earlier layers);
\* -1 when t is not reachable
RECURSIVE BFSDistance(_, _, _, _, _)
BFSDistance(g, frontier, seen, t, d) ==
  IF t \in frontier THEN d
  ELSE LET next == (UNION {Range(g.adj[n]) : n \in frontier}) \ seen
       IN IF next = {} THEN -1
          ELSE BFSDistance(g, next, seen \cup next, t, d + 1)

(***************************************************************************)
(* C13.  Path optimality: whenever find_concept_path returns a path, its   *)
(* path_length is the breadth-first distance, counted in edges, between    *)
(* the two resolved nodes; the weights of the edges play no part.          *)
(***************************************************************************)
C13_PathOptimality ==
  (mapper = "built" /\ result.op = "find_concept_path" /\ result.kind = "ok") =>
    result.path_length =
      BFSDistance(concept_graph, {result.concept1}, {result.concept1}, result.concept2, 0)

\* a returned path of two edges between nodes that no edge joins
C13_Witness ==
  /\ mapper = "built"
  /\ result.op = "find_concept_path"
  /\ result.kind = "ok"
  /\ result.path_length = 2
  /\ ~has_edge(concept_graph, result.concept1, result.concept2)

(***************************************************************************)
(* C14.  A successful find_concept_path result is a well-formed walk: the  *)
(* path starts at concept1 and ends at concept2, which are nodes equal to  *)
(* the two arguments without regard to case; consecutive nodes are joined  *)
(* by an edge; path_length = len(path) - 1 = len(path_details); entry i of *)
(* path_details names path[i] and path[i+1] and carries the weight and the *)
(* episode list of their edge; two names of one node give the path of that *)
(* single node, of length 0.                                               *)
(***************************************************************************)
C14_WellFormedWalk ==
  (mapper = "built" /\ result.op = "find_concept_path" /\ result.kind = "ok") =>
    /\ has_node(concept_graph, result.concept1)
    /\ has_node(concept_graph, result.concept2)
    /\ Lower(result.concept1) = Lower(result.args[1])
    /\ Lower(result.concept2) = Lower(result.args[2])
    /\ result.path[1] = result.concept1
    /\ result.path[Len(result.path)] = result.concept2
    /\ result.path_length = Len(result.path) - 1
    /\ result.path_length = Len(result.path_details)
    /\ \A i \in 1..(Len(result.path) - 1) :
         /\ has_edge(concept_graph, result.path[i], result.path[i + 1])
         /\ result.path_details[i].from = result.path[i]
         /\ result.path_details[i].to = result.path[i + 1]
         /\ result.path_details[i].strength = Weight(result.path[i], result.path[i + 1])
         /\ result.path_details[i].shared_episodes =
              concept_graph.edata[{result.path[i], result.path[i + 1]}].episodes
    /\ result.concept1 = result.concept2 =>
         result.path = <<result.concept1>> /\ result.path_length = 0

\* a returned walk of two edges that two different episodes contributed
C14_Witness ==
  /\ mapper = "built"
  /\ result.op = "find_concept_path"
  /\ result.kind = "ok"
  /\ Len(result.path) = 3
  /\ result.path_details[1].shared_episodes # result.path_details[2].shared_episodes

\* the nodes equal to the name without regard to case
Matches(g, name) == {n \in NodeSet(g) : IsStr(n) /\ Lower(n) = Lower(name)}

(***************************************************************************)
(* C15.  find_concept_path tells its two failures apart and raises in      *)
(* neither case: it returns the 'not found' error exactly when one of the  *)
(* two names matches no node, and the 'no path' error, together with the   *)
(* two resolved names, exactly when both names match a node and the two    *)
(* nodes lie in different connected components.  A node that is no string  *)
(* (C7) makes node.lower() raise at line 201 whatever the names are.       *)
(***************************************************************************)
C15_DistinctFailures ==
  (mapper = "built" /\ result.op = "find_concept_path") =>
    /\ result.kind # "raised"
    /\ (result.kind = "error") <=>
         (Matches(concept_graph, result.args[1]) = {}
            \/ Matches(concept_graph, result.args[2]) = {})
    /\ result.kind = "error" => result.error = NotFoundPath
    /\ (result.kind = "nopath") <=>
         \E n1 \in Matches(concept_graph, result.args[1]),
            n2 \in Matches(concept_graph, result.args[2]) :
              n2 \notin Reach(concept_graph, {n1})
    /\ result.kind = "nopath" =>
         /\ result.error = NoPathFound
         /\ result.concept1 \in Matches(concept_graph, result.args[1])
         /\ result.concept2 \in Matches(concept_graph, result.args[2])

(***************************************************************************)
(* C19.  Queries are read-only: after any sequence of map_single_concept,  *)
(* map_all_concepts, find_concept_path and export_for_visualization calls, *)
(* whether they returned a value or an error, the nodes, counts, node      *)
(* episode lists, edges, weights and edge episode lists of the graph are   *)
(* those the build produced from the episodes.                             *)
(***************************************************************************)
C19_QueriesReadOnly ==
  mapper = "built" =>
    concept_graph = _build_concept_graph(EmptyGraph, episodes).g

\* a query has returned the detail of a concept that has a neighbour
C19_Witness ==
  /\ mapper = "built"
  /\ result.op = "map_single_concept"
  /\ result.kind = "ok"
  /\ result.related_concepts # <<>>
  /\ EdgeSet(concept_graph) # {}

(***************************************************************************)
(* Records whose concept names differ only by case, and queries in either  *)
(* casing.                                                                 *)
(***************************************************************************)
MaxEpisodesC == 1
MaxLenC == 3
MaxEntriesC == 3

\* entries naming "A", its lower-case variant "a", and "B"
EntriesC == {DictEntry(v) : v \in {"A", "a", "B"}}

\* the names a query can be called with: both casings of each name
QueryNamesC == {"A", "a", "B", "b"}

LoadEpisodeC == Load(EntriesC, MaxEpisodesC, MaxLenC, MaxEntriesC, FALSE)
MapSingleConceptC == MapSingle(QueryNamesC)
FindConceptPathC == FindPath(QueryNamesC)

NextC ==
  \/ LoadEpisodeC
  \/ Build
  \/ MapSingleConceptC
  \/ FindConceptPathC
  \/ Return

SpecC == Init /\ [][NextC]_vars

\* the first node, in node order, equal to the name without regard to case
FirstMatch(g, name) ==
  g.order[CHOOSE i \in 1..Len(g.order) :
            /\ g.order[i] \in Matches(g, name)
            /\ \A j \in 1..(i - 1) : g.order[j] \notin Matches(g, name)]

\* two query results are the same but for the name the caller passed
SameButArgs(r1, r2) == [r1 EXCEPT !.args = <<>>] = [r2 EXCEPT !.args = <<>>]

(***************************************************************************)
(* C16.  map_single_concept resolves a name by exact match first and only  *)
(* otherwise by case-insensitive match: a name equal to a node resolves to *)
(* that node also when other case variants are nodes; a name equal to no   *)
(* node resolves to the first node that matches without regard to case,    *)
(* and to none when there is no such node; when one case variant only is a *)
(* node, every casing of the query returns the same result.                *)
(***************************************************************************)
C16_ExactThenCaseInsensitive ==
  (mapper = "built" /\ result.op = "map_single_concept") =>
    /\ result.kind # "raised"
    /\ has_node(concept_graph, result.args[1]) =>
         result.kind = "ok" /\ result.concept = result.args[1]
    /\ (~has_node(concept_graph, result.args[1])
          /\ Matches(concept_graph, result.args[1]) # {}) =>
         /\ result.kind = "ok"
         /\ result.concept = FirstMatch(concept_graph, result.args[1])
    /\ Matches(concept_graph, result.args[1]) = {} => result.kind = "error"
    /\ Cardinality(Matches(concept_graph, result.args[1])) = 1 =>
         \A q \in QueryNamesC :
            Lower(q) = Lower(result.args[1]) =>
              SameButArgs(map_single_concept(concept_graph, episodes, q), result)

\* "A" was asked for and returned, on a graph whose first node is "a"
C16_Witness ==
  /\ mapper = "built"
  /\ result.op = "map_single_concept"
  /\ result.kind = "ok"
  /\ result.args = <<"A">>
  /\ result.concept = "A"
  /\ concept_graph.order[1] = "a"

(***************************************************************************)
(* C17.  find_concept_path resolves each of its two names to the node that *)
(* map_single_concept resolves the name to (exact match first, else the    *)
(* first case-insensitive match), also on graphs with nodes that differ    *)
(* only by case.  Its loop (lines 200-204) makes no exact test and has no  *)
(* break: the last node that matches without regard to case wins.          *)
(***************************************************************************)
C17_SameResolution ==
  (mapper = "built" /\ result.op = "find_concept_path") =>
    /\ result.kind = "error" <=>
         (ResolveSingle(concept_graph, result.args[1]).kind = "none"
            \/ ResolveSingle(concept_graph, result.args[2]).kind = "none")
    /\ result.kind \in {"ok", "nopath"} =>
         /\ result.concept1 = ResolveSingle(concept_graph, result.args[1]).node
         /\ result.concept2 = ResolveSingle(concept_graph, result.args[2]).node

(***************************************************************************)
(* Building again from the episodes the first build read.                  *)
(***************************************************************************)
\* _build_concept_graph (lines 20-53) called once more on the constructed
\* ConceptMapper: only __init__ (line 17) makes the graph empty, the method
\* works on self.concept_graph as it is.  mapper = "rebuilt": the method has
\* run twice on this object
Rebuild ==
  /\ mapper = "built"
  /\ result = NoResult
  /\ LET b == _build_concept_graph(concept_graph, episodes)
     IN /\ concept_graph' = b.g
        /\ mapper' = IF b.raised THEN "failed" ELSE "rebuilt"
  /\ UNCHANGED <<episodes, result>>
  /\ UNCHANGED others

\* ConceptMapper(data_manager) constructed again (lines 14-18): a new object
\* with a graph of its own takes the place of the old one
NewConceptMapper ==
  /\ mapper \in {"built", "rebuilt"}
  /\ result = NoResult
  /\ LET b == _build_concept_graph(EmptyGraph, episodes)
     IN /\ concept_graph' = b.g
        /\ mapper' = IF b.raised THEN "failed" ELSE "built"
  /\ UNCHANGED <<episodes, result>>
  /\ UNCHANGED others

NextR ==
  \/ LoadEpisode
  \/ Build
  \/ Rebuild
  \/ NewConceptMapper

SpecR == Init /\ [][NextR]_vars

\* the nodes, counts, edges and weights of two graphs are the same
SameGraph(g, h) ==
  /\ NodeSet(g) = NodeSet(h)
  /\ EdgeSet(g) = EdgeSet(h)
  /\ \A n \in NodeSet(g) : g.data[n].count = h.data[n].count
  /\ \A e \in EdgeSet(g) : g.edata[e].weight = h.edata[e].weight

(***************************************************************************)
(* C18.  Idempotent rebuild: building twice from the same episodes, by     *)
(* constructing a ConceptMapper again or by running _build_concept_graph a *)
(* second time, yields the nodes, edges, counts and weights of building    *)
(* once.  The second run of the method adds to the graph of the first:     *)
(* every count and every weight doubles.                                   *)
(***************************************************************************)
C18_IdempotentRebuild ==
  mapper \in {"built", "rebuilt"} =>
    SameGraph(concept_graph, _build_concept_graph(EmptyGraph, episodes).g)

(***************************************************************************)
(* The engine operations that change or create episodes after the          *)
(* ConceptMapper has been constructed (SimoneEngine, engine.py).           *)
(***************************************************************************)
MaxEpisodesE == 1
MaxLenE == 2
MaxEntriesE == 2

EntriesE == {DictEntry(v) : v \in {"A", "B"}}

LoadEpisodeE == Load(EntriesE, MaxEpisodesE, MaxLenE, MaxEntriesE, FALSE)

\* what an analysis can make of an episode: content_analysis decides
\* is_valid, philosophical_content holds the concept list; a key the
\* analysis leaves out keeps the old value, which is one of these too
Reanalyzed(id) ==
  UNION {EpisodesOfLen(id, EntriesE, len) : len \in 0..MaxLenE}

\* the stored episodes with the one of this id replaced
Replace(eps, e) ==
  [i \in 1..Len(eps) |-> IF eps[i].episode_id = e.episode_id THEN e ELSE eps[i]]

EngineResult(op, args, kind) == [op |-> op, args |-> args, kind |-> kind]

\* a re-analysis that also feeds the new concept list into the graph
ReanalyzeEpisode_Updating ==
  /\ mapper = "built"
  /\ result = NoResult
  /\ \E episode_id \in 1..(Len(episodes) + 1) :
       IF get_episode(episodes, episode_id) = <<>>
       THEN /\ result' = EngineResult("reanalyze_episode", <<episode_id>>, "none")
            /\ UNCHANGED <<episodes, concept_graph>>
       ELSE \/ /\ result' = Raised("reanalyze_episode", <<episode_id>>)
               /\ UNCHANGED <<episodes, concept_graph>>
            \/ \E e \in Reanalyzed(episode_id) :
                 /\ TotalEntries(Replace(episodes, e)) <= MaxEntriesE
                 /\ episodes' = Replace(episodes, e)
                 /\ concept_graph' = _build_concept_graph(concept_graph, <<e>>).g
                 /\ result' = EngineResult("reanalyze_episode", <<episode_id>>, "ok")
  /\ UNCHANGED mapper
  /\ UNCHANGED others

\* SimoneEngine.reanalyze_episode (lines 80-112): None for an unknown id
\* (lines 84-87); an exception of the analyzer leaves the call before any
\* assignment (line 93); otherwise the fields of the stored Episode object
\* are assigned from the analysis (lines 104-110) and the object is returned.
\* self.concept_mapper is not touched
ReanalyzeEpisode ==
  /\ mapper = "built"
  /\ result = NoResult
  /\ \E episode_id \in 1..(Len(episodes) + 1) :
       IF get_episode(episodes, episode_id) = <<>>
       THEN /\ result' = EngineResult("reanalyze_episode", <<episode_id>>, "none")
            /\ UNCHANGED episodes
       ELSE \/ /\ result' = Raised("reanalyze_episode", <<episode_id>>)
               /\ UNCHANGED episodes
            \/ \E e \in Reanalyzed(episode_id) :
                 /\ TotalEntries(Replace(episodes, e)) <= MaxEntriesE
                 /\ episodes' = Replace(episodes, e)
                 /\ result' = EngineResult("reanalyze_episode", <<episode_id>>, "ok")
  /\ UNCHANGED <<concept_graph, mapper>>
  /\ UNCHANGED others

\* SimoneEngine.analyze_new_content (lines 43-78): the analyzer raises, or an
\* Episode with a fresh id is created and returned to the caller; it is not
\* stored in the DataManager
AnalyzeNewContent ==
  /\ mapper = "built"
  /\ result = NoResult
  /\ \E kind \in {"ok", "raised"} :
       result' = EngineResult("analyze_new_content", <<>>, kind)
  /\ UNCHANGED <<episodes, concept_graph, mapper>>
  /\ UNCHANGED others

\* the names generate_concept_map is called with on the engine
QueryNamesE == {"A", "b"}

MapSingleConceptE == MapSingle(QueryNamesE)

NextE ==
  \/ LoadEpisodeE
  \/ Build
  \/ ReanalyzeEpisode
  \/ AnalyzeNewContent
  \/ NewConceptMapper
  \/ MapSingleConceptE
  \/ Return

SpecE == Init /\ [][NextE]_vars

(***************************************************************************)
(* C20.  The graph is a snapshot of the episodes the constructor read: a   *)
(* step in which reanalyze_episode or analyze_new_content runs on the      *)
(* engine leaves the nodes, counts, edges and weights of the graph as they *)
(* were, whatever the operation does to the episodes; the graph changes    *)
(* only when a ConceptMapper is constructed.                               *)
(***************************************************************************)
C20_SnapshotUntilNewMapper ==
  [][(result'.op \in {"reanalyze_episode", "analyze_new_content"})
       => concept_graph' = concept_graph]_vars

\* reanalyze_episode has changed an episode, and the graph is not the one
\* the episodes would give now
C20_Witness ==
  /\ mapper = "built"
  /\ result.op = "reanalyze_episode"
  /\ result.kind = "ok"
  /\ ~SameGraph(concept_graph, _build_concept_graph(EmptyGraph, episodes).g)

(***************************************************************************)
(* Episodes with long concept lists: nodes with more than 10 neighbours.   *)
(***************************************************************************)
MaxEpisodesW == 1
MaxWide == 12

WideNames ==
  <<"n01", "n02", "n03", "n04", "n05", "n06", "n07",
    "n08", "n09", "n10", "n11", "n12", "n13">>

\* the longest list of distinct names
Widest == Min(MaxWide, Len(WideNames))

\* an episode that lists the first n names
WideEpisode(id, valid, n) ==
  Episode(id, valid, "dict", "list", [i \in 1..n |-> DictEntry(WideNames[i])])

\* DataManager._load_analyzed_episodes, lines 105-110, for such a file
LoadWide ==
  /\ mapper = "none"
  /\ Len(episodes) < MaxEpisodesW
  /\ \E n \in 0..Widest, valid \in BOOLEAN :
       episodes' = Append(episodes, WideEpisode(Len(episodes) + 1, valid, n))
  /\ UNCHANGED <<concept_graph, mapper, result>>
  /\ UNCHANGED others

QueryNamesW == {WideNames[i] : i \in 1..Widest}

MapSingleConceptW == MapSingle(QueryNamesW)

NextW ==
  \/ LoadWide
  \/ Build
  \/ MapSingleConceptW
  \/ Return

SpecW == Init /\ [][NextW]_vars

\* the related_concepts list map_single_concept reports for node n
Reported(n) == Take(related_concepts(concept_graph, n), 10)

\* the strength the list reports for concept b (0: b is not in the list)
StrengthIn(list, b) ==
  IF \E i \in 1..Len(list) : list[i].concept = b
  THEN list[CHOOSE i \in 1..Len(list) : list[i].concept = b].strength
  ELSE 0

(***************************************************************************)
(* C11, as claimed.  Symmetry: for all concepts A and B joined by an edge, *)
(* B is in the related_concepts that map_single_concept(A) reports and A   *)
(* in those it reports for B, with the same strength, for graphs of any    *)
(* degree, nodes with more than 10 neighbours included.                    *)
(***************************************************************************)
C11_Symmetry ==
  (mapper = "built" /\ result.op = "map_single_concept" /\ result.kind = "ok") =>
    \A b \in NodeSet(concept_graph) :
       has_edge(concept_graph, result.concept, b) =>
         /\ StrengthIn(result.related_concepts, b) = Weight(result.concept, b)
         /\ StrengthIn(Reported(b), result.concept) = Weight(result.concept, b)

(***************************************************************************)
(* C11, amended.  map_single_concept reports the first 10 neighbours in    *)
(* descending order of weight only.  Whenever A's list names B, the two    *)
(* are joined by an edge and the strength is the weight of that edge, the  *)
(* same that B's list gives for A if it names A; B is in A's list for      *)
(* every edge when A has at most 10 neighbours, and A and B are in each    *)
(* other's list when both have at most 10.                                 *)
(***************************************************************************)
C11_SymmetryTopTen ==
  (mapper = "built" /\ result.op = "map_single_concept" /\ result.kind = "ok") =>
    /\ Len(result.related_concepts)
         = Min(10, Len(neighbors(concept_graph, result.concept)))
    /\ \A i \in 1..Len(result.related_concepts) :
         LET b == result.related_concepts[i].concept
         IN /\ has_edge(concept_graph, result.concept, b)
            /\ result.related_concepts[i].strength = Weight(result.concept, b)
            /\ StrengthIn(Reported(b), result.concept)
                 \in {0, result.related_concepts[i].strength}
            /\ Len(neighbors(concept_graph, b)) <= 10 =>
                 StrengthIn(Reported(b), result.concept) = Weight(result.concept, b)
    /\ Len(neighbors(concept_graph, result.concept)) <= 10 =>
         \A b \in NodeSet(concept_graph) :
            has_edge(concept_graph, result.concept, b) =>
              StrengthIn(result.related_concepts, b) = Weight(result.concept, b)

\* the detail of a node with 11 neighbours: 10 are reported
C11_Witness ==
  /\ mapper = "built"
  /\ result.op = "map_single_concept"
  /\ result.kind = "ok"
  /\ Len(neighbors(concept_graph, result.concept)) = 11
  /\ Len(result.related_concepts) = 10

(***************************************************************************)
(* The constructor of the ConceptMapper, one episode of its loop at a      *)
(* time, over records of which some make the build raise.                  *)
(***************************************************************************)
MaxEpisodesP == 2
MaxLenP == 2
MaxEntriesP == 3

\* entries naming "A" or "B", or with a list as the name
EntriesP == {DictEntry(v) : v \in {"A", "B", Unhashable}}

LoadEpisodeP == Load(EntriesP, MaxEpisodesP, MaxLenP, MaxEntriesP, FALSE)

\* engine.py line 38 calls ConceptMapper(data_manager); lines 16-17 and 25 of
\* concept_mapper.py: the new object gets an empty graph and the loop gets
\* the valid episodes.  The engine holds no reference to the object yet
ConstructStart ==
  /\ mapper = "none"
  /\ mapper' = "building"
  /\ concept_graph' = EmptyGraph
  /\ todo' = get_all_episodes(episodes)
  /\ UNCHANGED <<episodes, result, cache_dir, now, locals>>

\* an iteration whose exception is caught inside the constructor, which then
\* returns the object as it is
ConstructStep_Swallowing ==
  /\ mapper = "building"
  /\ todo # <<>>
  /\ LET b == BuildEpisode([g |-> concept_graph, raised |-> FALSE], Head(todo))
     IN /\ concept_graph' = b.g
        /\ mapper' = IF b.raised THEN "built" ELSE mapper
        /\ todo' = IF b.raised THEN <<>> ELSE Tail(todo)
  /\ UNCHANGED <<episodes, result, cache_dir, now, locals>>

\* lines 28-50: one iteration of the episode loop.  An exception leaves
\* _build_concept_graph, __init__ and SimoneEngine.__init__ (nothing catches
\* it): the half-built object is dropped and no engine comes to exist
ConstructStep ==
  /\ mapper = "building"
  /\ todo # <<>>
  /\ LET b == BuildEpisode([g |-> concept_graph, raised |-> FALSE], Head(todo))
     IN /\ concept_graph' = b.g
        /\ mapper' = IF b.raised THEN "failed" ELSE mapper
        /\ todo' = IF b.raised THEN <<>> ELSE Tail(todo)
  /\ UNCHANGED <<episodes, result, cache_dir, now, locals>>

\* the loop is over, __init__ returns and engine.py line 38 stores the object
\* in self.concept_mapper, where the callers of the engine find it
ConstructReturn ==
  /\ mapper = "building"
  /\ todo = <<>>
  /\ mapper' = "built"
  /\ UNCHANGED <<episodes, concept_graph, result, todo, cache_dir, now, locals>>

NextP ==
  \/ LoadEpisodeP
  \/ ConstructStart
  \/ ConstructStep
  \/ ConstructReturn
  \/ MapSingleConcept
  \/ MapAllConcepts
  \/ FindConceptPath
  \/ ExportForVisualization
  \/ Return

SpecP == Init /\ [][NextP]_vars

(***************************************************************************)
(* C21.  No reader observes a partially built graph: a query runs only on  *)
(* a ConceptMapper whose constructor has returned, and then the graph is   *)
(* the one the build makes of all valid episodes; while the constructor    *)
(* runs, and after an exception has left it midway, no query has a graph   *)
(* to read and none returns a value.                                       *)
(***************************************************************************)
C21_NoPartialGraph ==
  /\ result.op # "none" => mapper = "built"
  /\ mapper = "built" =>
       /\ ~_build_concept_graph(EmptyGraph, episodes).raised
       /\ concept_graph = _build_concept_graph(EmptyGraph, episodes).g
  /\ mapper \in {"building", "failed"} => result = NoResult
  /\ _build_concept_graph(EmptyGraph, episodes).raised => mapper # "built"

\* the build has failed midway: the graph holds the concepts read before the
\* exception, and no query has it
C21_Witness ==
  /\ mapper = "failed"
  /\ number_of_nodes(concept_graph) > 0
  /\ result = NoResult

(***************************************************************************)
(* C22.  export_for_visualization returns one node entry per graph node    *)
(* and one edge entry per graph edge, none filtered out and none twice: a  *)
(* node entry has id = label = the node name, size = the occurrence count  *)
(* and episodes = the length of the node's episode list; an edge entry     *)
(* carries the two endpoints of the edge and its weight.                   *)
(***************************************************************************)
C22_ExportComplete ==
  (mapper = "built" /\ result.op = "export_for_visualization") =>
    /\ result.kind = "ok"
    /\ Len(result.nodes) = Cardinality(NodeSet(concept_graph))
    /\ \A i \in 1..Len(result.nodes) :
         /\ result.nodes[i].id \in NodeSet(concept_graph)
         /\ result.nodes[i].label = result.nodes[i].id
         /\ result.nodes[i].size = concept_graph.data[result.nodes[i].id].count
         /\ result.nodes[i].episodes = Len(concept_graph.data[result.nodes[i].id].episodes)
    /\ \A n \in NodeSet(concept_graph) :
         Cardinality({i \in 1..Len(result.nodes) : result.nodes[i].id = n}) = 1
    /\ Len(result.edges) = Cardinality(EdgeSet(concept_graph))
    /\ \A i \in 1..Len(result.edges) :
         /\ {result.edges[i].source, result.edges[i].target} \in EdgeSet(concept_graph)
         /\ result.edges[i].weight =
              concept_graph.edata[{result.edges[i].source, result.edges[i].target}].weight
    /\ \A e \in EdgeSet(concept_graph) :
         Cardinality({i \in 1..Len(result.edges) :
                        {result.edges[i].source, result.edges[i].target} = e}) = 1

\* the export of the graph of [A, B, A]: two nodes, the edge (A, B) of weight 2
\* and the edge (A, A) of weight 1
C22_Witness ==
  /\ mapper = "built"
  /\ result.op = "export_for_visualization"
  /\ Len(result.nodes) = 2
  /\ Len(result.edges) = 2
  /\ \E i, j \in 1..2 : result.edges[i].weight = 1 /\ result.edges[j].weight = 2
  /\ \E i \in 1..2 : result.nodes[i].size = 2 /\ result.nodes[i].episodes = 2

\* the connected components of the graph that have at least 3 members
LargeComponents(g) ==
  {c \in {Reach(g, {n}) : n \in NodeSet(g)} : Cardinality(c) >= 3}

(***************************************************************************)
(* C23.  map_all_concepts reports as concept_clusters the connected        *)
(* components of at least 3 members, the 10 largest when there are more,   *)
(* in non-increasing order of size, each with size = its member count and  *)
(* a central_concept that is a member of maximal degree; a graph of 3 or 4 *)
(* nodes that form one component yields that component.  The clustering    *)
(* (line 165) returns no cluster at all for a graph of fewer than 5 nodes. *)
(***************************************************************************)
C23_ClustersAreComponents ==
  (mapper = "built" /\ result.op = "map_all_concepts" /\ result.kind = "ok") =>
    LET clusters == result.concept_clusters
        comps == LargeComponents(concept_graph)
    IN /\ Len(clusters) = Min(10, Cardinality(comps))
       /\ \A i \in 1..Len(clusters) :
            /\ clusters[i].concepts \in comps
            /\ clusters[i].size = Cardinality(clusters[i].concepts)
            /\ clusters[i].central_concept \in clusters[i].concepts
            /\ \A m \in clusters[i].concepts :
                 degree(concept_graph, m) <= degree(concept_graph, clusters[i].central_concept)
            /\ \A j \in 1..Len(clusters) :
                 /\ i < j => clusters[i].size >= clusters[j].size
                 /\ i # j => clusters[i].concepts # clusters[j].concepts
            /\ \A c \in comps :
                 (\A j \in 1..Len(clusters) : clusters[j].concepts # c) =>
                   Cardinality(c) <= clusters[i].size

(***************************************************************************)
(* Episodes that list nearly all the names, and episodes that list the     *)
(* last few of them again: nodes with more than 10 neighbours and edges of *)
(* different weights.                                                      *)
(***************************************************************************)
MaxEpisodesS == 2
MaxTail == 2

\* DataManager._load_analyzed_episodes, lines 105-110: a file whose episode
\* lists all the names or all but the last, or one that lists the last n
LoadWideOrTail ==
  /\ mapper = "none"
  /\ Len(episodes) < MaxEpisodesS
  /\ \E valid \in BOOLEAN :
       \/ \E n \in (Widest - 1)..Widest :
            episodes' = Append(episodes, WideEpisode(Len(episodes) + 1, valid, n))
       \/ \E n \in 0..MaxTail :
            episodes' = Append(episodes,
              Episode(Len(episodes) + 1, valid, "dict", "list",
                      [i \in 1..n |-> DictEntry(WideNames[Widest - n + i])]))
  /\ UNCHANGED <<concept_graph, mapper, result>>
  /\ UNCHANGED others

NextS ==
  \/ LoadWideOrTail
  \/ Build
  \/ MapSingleConceptW
  \/ Return

SpecS == Init /\ [][NextS]_vars

\* the position of b in the neighbour list of n (discovery order)
NeighbourIndex(n, b) ==
  CHOOSE i \in 1..Len(neighbors(concept_graph, n)) : neighbors(concept_graph, n)[i] = b

(***************************************************************************)
(* C24.  map_single_concept returns at most 10 related concepts, each a    *)
(* neighbour with the weight of its edge as strength, in non-increasing    *)
(* order of strength, neighbours of equal strength in the order in which   *)
(* the graph lists them; a neighbour that is left out is no stronger than  *)
(* any that is in the list, and was listed later by the graph than those   *)
(* of its own strength.                                                    *)
(***************************************************************************)
C24_TopTenByStrength ==
  (mapper = "built" /\ result.op = "map_single_concept" /\ result.kind = "ok") =>
    LET list == result.related_concepts
        c == result.concept
        nbrs == neighbors(concept_graph, c)
        listed == {list[i].concept : i \in 1..Len(list)}
    IN /\ Len(list) <= 10
       /\ Len(list) = Min(10, Len(nbrs))
       /\ \A i \in 1..Len(list) :
            /\ list[i].concept \in Range(nbrs)
            /\ list[i].strength = Weight(c, list[i].concept)
            /\ \A j \in 1..Len(list) :
                 i < j =>
                   /\ list[i].concept # list[j].concept
                   /\ list[i].strength >= list[j].strength
                   /\ list[i].strength = list[j].strength =>
                        NeighbourIndex(c, list[i].concept) < NeighbourIndex(c, list[j].concept)
            /\ \A b \in Range(nbrs) \ listed :
                 /\ Weight(c, b) <= list[i].strength
                 /\ Weight(c, b) = list[i].strength =>
                      NeighbourIndex(c, list[i].concept) < NeighbourIndex(c, b)

\* a node with 11 neighbours: the one the graph lists last has the heaviest
\* edge and is reported first, and one of the others is left out
C24_Witness ==
  /\ mapper = "built"
  /\ result.op = "map_single_concept"
  /\ result.kind = "ok"
  /\ Len(neighbors(concept_graph, result.concept)) = 11
  /\ Len(result.related_concepts) = 10
  /\ result.related_concepts[1].concept = neighbors(concept_graph, result.concept)[11]
  /\ result.related_concepts[1].strength = 2
  /\ result.related_concepts[2].strength = 1

(***************************************************************************)
(* C25.  The centrality_score that map_single_concept returns for a node   *)
(* is (number of distinct other concepts joined to it) / (|V| - 1) when    *)
(* |V| >= 2, so it never exceeds 1, and it is 0 when the graph has exactly *)
(* one node.  nx.degree_centrality gives 1 to the node of a one-node       *)
(* graph, and counts the self-loop of a repeated name (C1) twice.          *)
(***************************************************************************)
C25_CentralityScore ==
  (mapper = "built" /\ result.op = "map_single_concept" /\ result.kind = "ok") =>
    LET n == number_of_nodes(concept_graph)
        joined == Cardinality(ProperNbrs(concept_graph, result.concept))
        score == result.centrality_score
    IN /\ n >= 2 =>
            /\ score.num * (n - 1) = joined * score.den
            /\ score.num <= score.den
       /\ n = 1 => score.num = 0

MaxDays == 31
\* the days that pass between two calls, when any pass
DaysPerTick == 31

\* line 17: the default time-to-live
ttl_days == 30

CacheClasses == {"Cache", "JSONCache"}
CacheKeys == {"k1", "k2"}

\* the values the analyzer stores (philosophical_analyzer.py line 71): data
\* parsed from JSON, which pickle and json both write and read back unchanged
CacheValues == {"v1", "v2"}

\* the return value None
None == "<None>"

\* hashlib.md5(key.encode()).hexdigest(), lines 106 and 150
Md5(key) ==
  CASE key = "k1" -> "b637b17a"
    [] key = "k2" -> "61620957"
    [] OTHER -> "d41d8cd9"

\* lines 103-107 and 148-151: the file of a key
_get_cache_path(class, key) ==
  <<Md5(key), IF class = "JSONCache" THEN ".json" ELSE ".pkl">>

\* the files glob("*.pkl") yields (lines 72 and 81)
GlobPkl(dir) == {f \in DOMAIN dir : f[2] = ".pkl"}

\* the directory without the files of S (Path.unlink)
Unlink(dir, S) == [f \in DOMAIN dir \ S |-> dir[f]]

\* lines 109-112
_is_expired(dir, t, file) == t - dir[file].mtime > ttl_days

\* pickle.dump(value, f) / json.dump(value, f): the bytes or the text written
Dump(class, value) ==
  [format |-> IF class = "JSONCache" THEN "json" ELSE "pickle", data |-> value]

\* pickle.load(f) / json.load(f)
Undump(content) == content.data

\* lines 25-47 and 118-135: the value returned and the directory afterwards
get(class, dir, t, key) ==
  LET cache_file == _get_cache_path(class, key)
  IN IF cache_file \notin DOMAIN dir THEN [value |-> None, dir |-> dir]
     ELSE IF _is_expired(dir, t, cache_file)
     THEN [value |-> None, dir |-> Unlink(dir, {cache_file})]
     ELSE [value |-> Undump(dir[cache_file].content), dir |-> dir]

\* lines 49-59 and 137-146: the file is created or overwritten
set(class, dir, t, key, value) ==
  (_get_cache_path(class, key) :> [content |-> Dump(class, value), mtime |-> t]) @@ dir

\* lines 61-67
delete(class, dir, key) == Unlink(dir, {_get_cache_path(class, key)})

\* lines 69-76; JSONCache inherits the method
clear(class, dir) == Unlink(dir, GlobPkl(dir))

\* lines 78-87; JSONCache inherits the method
cleanup_expired(class, dir, t) ==
  LET expired == {f \in GlobPkl(dir) : _is_expired(dir, t, f)}
  IN [count |-> Cardinality(expired), dir |-> Unlink(dir, expired)]

CacheResult(op, args, value) == [op |-> op, args |-> args, kind |-> "ok", value |-> value]

CacheGet(class, key) ==
  /\ result' = CacheResult("get", <<class, key>>, get(class, cache_dir, now, key).value)
  /\ cache_dir' = get(class, cache_dir, now, key).dir
  /\ UNCHANGED <<episodes, concept_graph, mapper, todo, now, locals>>

CacheSet(class, key, value) ==
  /\ result' = CacheResult("set", <<class, key, value>>, None)
  /\ cache_dir' = set(class, cache_dir, now, key, value)
  /\ UNCHANGED <<episodes, concept_graph, mapper, todo, now, locals>>

CacheDelete(class, key) ==
  /\ result' = CacheResult("delete", <<class, key>>, None)
  /\ cache_dir' = delete(class, cache_dir, key)
  /\ UNCHANGED <<episodes, concept_graph, mapper, todo, now, locals>>

CacheClear(class) ==
  /\ result' = CacheResult("clear", <<class>>, None)
  /\ cache_dir' = clear(class, cache_dir)
  /\ UNCHANGED <<episodes, concept_graph, mapper, todo, now, locals>>

CacheCleanupExpired(class) ==
  /\ result' = CacheResult("cleanup_expired", <<class>>,
                           cleanup_expired(class, cache_dir, now).count)
  /\ cache_dir' = cleanup_expired(class, cache_dir, now).dir
  /\ UNCHANGED <<episodes, concept_graph, mapper, todo, now, locals>>

\* time passes between two calls
Tick ==
  /\ now + DaysPerTick <= MaxDays
  /\ now' = now + DaysPerTick
  /\ UNCHANGED <<episodes, concept_graph, mapper, result, todo, cache_dir, locals>>

Get == \E class \in CacheClasses, key \in CacheKeys : CacheGet(class, key)
Set ==
  \E class \in CacheClasses, key \in CacheKeys, value \in CacheValues :
     CacheSet(class, key, value)
Delete == \E class \in CacheClasses, key \in CacheKeys : CacheDelete(class, key)
Clear == \E class \in CacheClasses : CacheClear(class)
CleanupExpired == \E class \in CacheClasses : CacheCleanupExpired(class)

NextCache ==
  \/ Get
  \/ Set
  \/ Delete
  \/ Clear
  \/ CleanupExpired
  \/ Tick

SpecCache == Init /\ [][NextCache]_vars

\* what get(key) of the cache would return in the state
Cached(class, dir, t, key) == get(class, dir, t, key).value

\* the file of the key exists and is expired at time t
Expired(class, dir, t, key) ==
  /\ _get_cache_path(class, key) \in DOMAIN dir
  /\ _is_expired(dir, t, _get_cache_path(class, key))

(***************************************************************************)
(* C27.  For both Cache and JSONCache, in every sequence of set, get,      *)
(* delete and clear calls: after set(k, v), get(k) returns v, and goes on  *)
(* to return it until a set(k, .) or a delete(k) of that cache, a clear(), *)
(* or the expiry of the entry; after delete(k), get(k) returns None; after *)
(* clear(), get returns None for every key; after cleanup_expired, the     *)
(* cache it was called on has no expired entry.  The methods JSONCache     *)
(* inherits look for "*.pkl" files only.                                   *)
(***************************************************************************)
C27_CacheContract ==
  [][\A class \in CacheClasses :
       /\ \A key \in CacheKeys :
            /\ \A value \in CacheValues :
                 CacheSet(class, key, value) =>
                   Cached(class, cache_dir', now', key) = value
            /\ CacheDelete(class, key) => Cached(class, cache_dir', now', key) = None
            /\ Cached(class, cache_dir', now', key) # Cached(class, cache_dir, now, key) =>
                 \/ \E value \in CacheValues : CacheSet(class, key, value)
                 \/ CacheDelete(class, key)
                 \/ \E any \in CacheClasses : CacheClear(any)
                 \/ Expired(class, cache_dir, now', key)
       /\ CacheClear(class) =>
            \A key \in CacheKeys : Cached(class, cache_dir', now', key) = None
       /\ CacheCleanupExpired(class) =>
            \A key \in CacheKeys : ~Expired(class, cache_dir', now', key)]_vars

(***************************************************************************)
(* PhilosophicalChatInterface.create_learning_path                         *)
(* (src/src/interface/chat_interface.py).  locals holds the arguments and  *)
(* the number of frames of the call while it waits for the LLM.            *)
(***************************************************************************)
MaxEpisodesL == 2
MaxLenL == 1
MaxEntriesL == 2
\* the largest max_episodes a caller passes
MaxPath == 2
\* the number of nested calls at which the interpreter raises RecursionError
RecursionLimit == 3

LoadEpisodeL == Load(EntriesE, MaxEpisodesL, MaxLenL, MaxEntriesL, FALSE)

\* the starting concepts a caller passes
QueryNamesL == {"a", "b"}

\* sub in s, for strings of at most one character
Contains(sub, s) == sub = "" \/ sub = s

\* DataManager.get_episodes_by_concept (data_manager.py lines 229-244): the
\* valid episodes with a dict entry whose name contains the concept, without
\* regard to case
get_episodes_by_concept(eps, concept) ==
  SelectSeq(get_all_episodes(eps),
            LAMBDA ep : \E i \in 1..Len(ep.concepts) :
                           /\ ep.concepts[i].isdict
                           /\ Contains(Lower(concept), Lower(GetConceptOrEmpty(ep.concepts[i]))))

\* lines 168-173 and 204-212: one entry per episode of episodes[:max_episodes]
LearningPath(eps, concept, max_episodes) ==
  LET found == Take(get_episodes_by_concept(eps, concept), max_episodes)
  IN [i \in 1..Len(found) |-> found[i].episode_id]

PathResult(concept, max_episodes, path) ==
  [op |-> "create_learning_path", args |-> <<concept, max_episodes>>, kind |-> "ok",
   path |-> path]

\* lines 159-199: the call, on an interface made from the data manager of a
\* constructed engine; without a client the fallback returns at once (lines
\* 165-173), with one the prompt goes to the LLM (line 194)
CreateLearningPath ==
  /\ mapper = "built"
  /\ locals = NoCall
  /\ result = NoResult
  /\ \E client \in BOOLEAN, starting_concept \in QueryNamesL, max_episodes \in 0..MaxPath :
       IF client
       THEN /\ locals' = [op |-> "create_learning_path",
                          starting_concept |-> starting_concept,
                          max_episodes |-> max_episodes, depth |-> 1]
            /\ UNCHANGED result
       ELSE /\ result' = PathResult(starting_concept, max_episodes,
                                    LearningPath(episodes, starting_concept, max_episodes))
            /\ UNCHANGED locals
  /\ UNCHANGED <<episodes, concept_graph, mapper, todo, cache_dir, now>>

\* lines 194-212: messages.create returns; the path is built and returned
\* through all the frames of the call
LLMAnswers ==
  /\ locals.op = "create_learning_path"
  /\ result' = PathResult(locals.starting_concept, locals.max_episodes,
                          LearningPath(episodes, locals.starting_concept, locals.max_episodes))
  /\ locals' = NoCall
  /\ UNCHANGED <<episodes, concept_graph, mapper, todo, cache_dir, now>>

\* lines 214-216: messages.create raises; the handler calls
\* create_learning_path again with the same arguments, one frame deeper.  At
\* the interpreter's limit the new call raises RecursionError inside the
\* handler, which no frame catches
LLMFails ==
  /\ locals.op = "create_learning_path"
  /\ IF locals.depth < RecursionLimit
     THEN /\ locals' = [locals EXCEPT !.depth = @ + 1]
          /\ UNCHANGED result
     ELSE /\ result' = Raised("create_learning_path",
                              <<locals.starting_concept, locals.max_episodes>>)
          /\ locals' = NoCall
  /\ UNCHANGED <<episodes, concept_graph, mapper, todo, cache_dir, now>>

NextL ==
  \/ LoadEpisodeL
  \/ Build
  \/ CreateLearningPath
  \/ LLMAnswers
  \/ LLMFails
  \/ Return

SpecL == Init /\ [][NextL]_vars

(***************************************************************************)
(* C28.  create_learning_path always returns, and what it returns is a     *)
(* list of at most max_episodes entries, also when a client is configured  *)
(* and the LLM call fails on every attempt.  The handler of the failure    *)
(* calls the method again with the same arguments: while the LLM fails the *)
(* frames pile up, and the call ends in a RecursionError.                  *)
(***************************************************************************)
C28_LearningPathReturns ==
  result.op = "create_learning_path" =>
    /\ result.kind = "ok"
    /\ Len(result.path) <= result.args[2]

(***************************************************************************)
(* LLMClient.chunk_text (src/src/utils/llm_client.py lines 102-115).       *)
(* locals holds the arguments and the local variables of the call while    *)
(* its loop runs; a text is the sequence of its tokens.                    *)
(***************************************************************************)
\* tokens of the longest text
MaxTokens == 4
\* the largest chunk_size and the largest overlap a caller passes
MaxChunkSize == 3
MaxOverlap == 3
\* the chunks a call can hold in memory
MaxChunks == 5

\* a slice index of Python, for a sequence of length n: counted from the end
\* when negative, and brought into 0..n
SliceIndex(i, n) ==
  IF i < 0 THEN (IF n + i < 0 THEN 0 ELSE n + i)
  ELSE IF i > n THEN n ELSE i

\* seq[start:end] (0-based, end excluded)
Slice(seq, start, end) ==
  SubSeq(seq, SliceIndex(start, Len(seq)) + 1, SliceIndex(end, Len(seq)))

\* lines 104-107: the text is encoded and the loop starts at 0
ChunkText ==
  /\ locals = NoCall
  /\ result = NoResult
  /\ \E n \in 0..MaxTokens, chunk_size \in 1..MaxChunkSize, overlap \in 0..MaxOverlap :
       locals' = [op |-> "chunk_text", tokens |-> [i \in 1..n |-> i],
                  chunk_size |-> chunk_size, overlap |-> overlap,
                  start |-> 0, chunks |-> <<>>]
  /\ UNCHANGED <<episodes, concept_graph, mapper, result, todo, cache_dir, now>>

\* lines 108-113: one iteration of the loop
ChunkLoop ==
  /\ locals.op = "chunk_text"
  /\ locals.start < Len(locals.tokens)
  /\ Len(locals.chunks) < MaxChunks
  /\ LET end == locals.start + locals.chunk_size
     IN locals' = [locals EXCEPT
                     !.chunks = Append(@, Slice(locals.tokens, locals.start, end)),
                     !.start = end - locals.overlap]
  /\ UNCHANGED <<episodes, concept_graph, mapper, result, todo, cache_dir, now>>

\* lines 108 and 115: the loop is over and the chunks are returned
ChunkReturn ==
  /\ locals.op = "chunk_text"
  /\ locals.start >= Len(locals.tokens)
  /\ result' = [op |-> "chunk_text",
                args |-> <<Len(locals.tokens), locals.chunk_size, locals.overlap>>,
                kind |-> "ok", chunks |-> locals.chunks]
  /\ locals' = NoCall
  /\ UNCHANGED <<episodes, concept_graph, mapper, todo, cache_dir, now>>

NextT ==
  \/ ChunkText
  \/ ChunkLoop
  \/ ChunkReturn
  \/ Return

SpecT == Init /\ [][NextT]_vars

(***************************************************************************)
(* C29.  chunk_text terminates for every text, every chunk_size > 0 and    *)
(* every overlap >= 0: the start index is strictly greater after each      *)
(* iteration of the loop than before it, and the chunks returned cover     *)
(* every token of the text.  The next start is end - overlap, which is no  *)
(* greater than the start when overlap >= chunk_size.                      *)
(***************************************************************************)
C29_ChunkTextTerminates ==
  [][/\ ChunkLoop => locals'.start > locals.start
     /\ ChunkReturn =>
          \A t \in Range(locals.tokens) :
             \E k \in 1..Len(result'.chunks) : t \in Range(result'.chunks[k])]_vars

(***************************************************************************)
(* The concept counter of the DataManager (data_manager.py, lines 197-212) *)
(* and its statistics (lines 263-275), next to the graph.                  *)
(***************************************************************************)
MaxEpisodesD == 2
MaxLenD == 2
MaxEntriesD == 3

\* entries with a name, with a name that is null, empty or a number, and
\* entries that are no dict
EntriesD ==
  {DictEntry(v) : v \in {"A", "B", Null, Empty, NonStr}} \cup {NonDictEntry}

LoadEpisodeD == Load(EntriesD, MaxEpisodesD, MaxLenD, MaxEntriesD, TRUE)

\* lines 206-210: the loop over the entries of one episode; f.order holds the
\* keys of concepts_freq in insertion order.  An unhashable name raises
\* TypeError at line 210
RECURSIVE CountEntries(_, _)
CountEntries(f, cs) ==
  IF cs = <<>> \/ f.raised THEN f
  ELSE LET name == GetConceptOrEmpty(Head(cs))
       IN IF ~(Head(cs).isdict /\ Truthy(name)) THEN CountEntries(f, Tail(cs))
          ELSE IF ~Hashable(name) THEN [f EXCEPT !.raised = TRUE]
          ELSE IF name \in Range(f.order)
          THEN CountEntries([f EXCEPT !.freq[name] = @ + 1], Tail(cs))
          ELSE CountEntries([f EXCEPT !.order = Append(@, name),
                                      !.freq = (name :> 1) @@ @], Tail(cs))

\* the body of the episode loop without the test of is_valid
CountEpisode_Unfiltered(f, ep) ==
  IF f.raised THEN f
  ELSE IF ep.pc # "dict" \/ ep.ce \in {"null", "number"} THEN [f EXCEPT !.raised = TRUE]
  ELSE CountEntries(f, IF ep.ce = "list" THEN ep.concepts ELSE <<>>)

\* lines 201-210: the body of the episode loop; .get on a
\* philosophical_content that is no mapping and the iteration over a
\* concepts_explored that is None or a number raise
CountEpisode(f, ep) ==
  IF f.raised \/ ~ep.valid THEN f
  ELSE IF ep.pc # "dict" \/ ep.ce \in {"null", "number"} THEN [f EXCEPT !.raised = TRUE]
  ELSE CountEntries(f, IF ep.ce = "list" THEN ep.concepts ELSE <<>>)

RECURSIVE CountEpisodes(_, _)
CountEpisodes(f, eps) ==
  IF eps = <<>> THEN f ELSE CountEpisodes(CountEpisode(f, Head(eps)), Tail(eps))

\* lines 197-212: the dict returned, as its keys in order (by frequency,
\* descending) and the frequency of each
get_all_concepts(eps) ==
  LET f == CountEpisodes([raised |-> FALSE, order |-> <<>>, freq |-> <<>>], eps)
  IN [raised |-> f.raised,
      keys |-> Items(SortDesc([i \in 1..Len(f.order) |-> <<f.freq[f.order[i]], f.order[i]>>])),
      freq |-> f.freq]

\* lines 263-275, the counts of episodes and concepts; the philosophers and
\* the averages of the dataframe are not part of the state
get_statistics(eps) ==
  IF get_all_concepts(eps).raised THEN Raised("get_statistics", <<>>)
  ELSE [op |-> "get_statistics", args |-> <<>>, kind |-> "ok",
        total_episodes |-> Len(eps),
        valid_episodes |-> Len(get_all_episodes(eps)),
        failed_episodes |-> Len(eps) - Len(get_all_episodes(eps)),
        total_concepts |-> Len(get_all_concepts(eps).keys)]

\* DataManager.get_all_concepts called through the engine (engine.py line 264)
GetAllConcepts ==
  /\ mapper = "built"
  /\ result = NoResult
  /\ result' = IF get_all_concepts(episodes).raised THEN Raised("get_all_concepts", <<>>)
               ELSE [op |-> "get_all_concepts", args |-> <<>>, kind |-> "ok",
                     keys |-> get_all_concepts(episodes).keys,
                     freq |-> get_all_concepts(episodes).freq]
  /\ UNCHANGED <<episodes, concept_graph, mapper>>
  /\ UNCHANGED others

\* SimoneEngine.get_statistics (engine.py lines 289-291)
GetStatistics ==
  /\ mapper = "built"
  /\ result = NoResult
  /\ result' = get_statistics(episodes)
  /\ UNCHANGED <<episodes, concept_graph, mapper>>
  /\ UNCHANGED others

NextD ==
  \/ LoadEpisodeD
  \/ Build
  \/ MapAllConcepts
  \/ GetAllConcepts
  \/ GetStatistics
  \/ Return

SpecD == Init /\ [][NextD]_vars

====
